---- MODULE Spec2Model ----
(***************************************************************************)
(* TutoraBot (src/app.py): a Streamlit script with three tabs.  Every      *)
(* script run executes the file top to bottom in a fresh namespace; only   *)
(* st.session_state (per browser session) and the directory               *)
(* PRE_EXISTING_DOCS_DIR (shared by all sessions) survive a run.           *)
(* A run is modelled as a sequence of steps, one per widget read or remote *)
(* call; an uncaught exception ends the run (pc = "aborted").  A widget's  *)
(* value is chosen at the step that reads it.  Streamlit executes one run  *)
(* at a time per session and runs of different sessions concurrently; a    *)
(* run is followed to its end (it is not cut short by a rerun request).    *)
(***************************************************************************)
EXTENDS Naturals, Sequences, FiniteSets, TLC

\* ---- bounds of the model ------------------------------------------------
MaxRuns == 2
MaxConcRuns == 2

\* Two browser sessions: sessions share nothing but the directory, and every
\* property about concurrent runs below is a property of a pair of runs.
Sessions == {1, 2}

\* ---- values -------------------------------------------------------------
None == "None"

\* Entries the user or the directory can hold: A.pdf has two pages, B.pdf one,
\* E.pdf is a valid PDF with zero extractable pages, X.pdf cannot be parsed,
\* U.PDF (upper-case extension) has one page, D.pdf is a sub-directory.
Uploads == {"A", "B", "E", "X"}
InitialDirs == {{}, {"B"}, {"X"}, {"U"}, {"D"}}
GenUploads == {"A", "U"}
GeneralQueries == {"", "g"}
DocQueries == {"", "q1", "q2"}
UrlInputs == {"", "u"}
UrlTexts == {"", "text"}

NPages(d) == CASE d = "A" -> 2 [] d = "B" -> 1 [] d = "U" -> 1 [] OTHER -> 0
Corrupt(d) == d = "X"

\* os.path.isfile(file_path)
IsFile(d) == d # "D"
\* name.endswith('.pdf'), case-sensitive
EndsWithPdf(d) == d # "U"
\* name.lower().endswith('.pdf')
LowerEndsWithPdf(d) == TRUE

\* line 73: the entries handle_document_upload loads
AnalysisListed(dir) == {d \in dir : IsFile(d) /\ LowerEndsWithPdf(d)}
\* line 305: the entries the generation tab offers
GenListed(dir) == {d \in dir : EndsWithPdf(d)}

\* PyPDFLoader(path).load(): one Document per page, in page order.
Pages(d) == [p \in 1..NPages(d) |-> <<d, p>>]

\* os.listdir gives the directory's entries in arbitrary order.
Orderings(S) == {o \in [1..Cardinality(S) -> S] : \A i, j \in DOMAIN o : o[i] = o[j] => i = j}

RECURSIVE LoadAll(_)
LoadAll(order) == IF order = <<>> THEN <<>>
                  ELSE Pages(Head(order)) \o LoadAll(Tail(order))

\* messages the script shows
MsgNoDocument == "Aucun document a traiter"
MsgUrlError == "Erreur lors de la recuperation du contenu a partir de l'URL"
MsgSelectSource == "Veuillez selectionner un document PDF ou fournir un lien URL valide."
MsgNoPdf == "Aucun document PDF disponible dans le repertoire pre-existant."
MsgUploaded == "Le fichier a ete telecharge avec succes."
MsgGenerated == "Document PDF genere avec succes."
MsgConversation == "document conversation"

Unbound == "unbound"
NoIndex == [segs |-> <<>>, phase |-> "none", owner |-> 0]
GenLocals == [pdf_files |-> {}, uploaded_file |-> None,
              content_source |-> None, selected_pdf |-> None, url_input |-> "",
              url_content |-> None, user_prompt |-> Unbound, clicked |-> FALSE]
NoCalls == [embed |-> 0, synth |-> 0, chat |-> 0, generate |-> 0]

VARIABLES
    fs,              \* entries of PRE_EXISTING_DOCS_DIR (shared; lines 23-26)
    truncated,       \* entries opened 'wb' (line 313) and not yet written (line 314)
    general_query,   \* per run: the general chat tab's text input (line 215)
    session_state,   \* per session: key -> conversation (lines 212, 266)
    pc,              \* per session: position of the current script run
    document_state,  \* per run: document_state["documents"] (line 57)
    pdf_file,        \* per run: the analysis tab's uploader value (line 60)
    document_query,  \* per run: the analysis tab's text input (line 261)
    vector_store,    \* the index each run's name vector_store is bound to (line 254)
    embedded,        \* per run: segments embedded so far by from_documents
    gen,             \* per run: locals of the generation tab (lines 326-367)
    calls,           \* per run: chat call (219), from_documents (254), qa_chain.run (264)
                     \* and generate_content (369) invocations
    shown,           \* per run: messages shown by the script
    raised,          \* per run: the uncaught exception, if any
    pdf_out,         \* per run: create_pdf wrote a PDF
    stats,           \* per session: calls that returned / failed so far
    runs             \* script runs started so far

vars == <<fs, truncated, general_query, session_state, pc, document_state, pdf_file, document_query,
          vector_store, embedded, gen, calls, shown, raised, pdf_out, stats, runs>>

Init ==
    /\ fs \in InitialDirs
    /\ truncated = {}
    /\ general_query = [s \in Sessions |-> ""]
    /\ session_state = [s \in Sessions |-> <<>>]
    /\ pc = [s \in Sessions |-> "ready"]
    /\ document_state = [s \in Sessions |-> <<>>]
    /\ pdf_file = [s \in Sessions |-> None]
    /\ document_query = [s \in Sessions |-> ""]
    /\ vector_store = [s \in Sessions |-> NoIndex]
    /\ embedded = [s \in Sessions |-> 0]
    /\ gen = [s \in Sessions |-> GenLocals]
    /\ calls = [s \in Sessions |-> NoCalls]
    /\ shown = [s \in Sessions |-> {}]
    /\ raised = [s \in Sessions |-> "none"]
    /\ pdf_out = [s \in Sessions |-> FALSE]
    /\ stats = [s \in Sessions |-> [general |-> 0, document |-> 0, failed |-> 0]]
    /\ runs = 0

\* st.session_state[key], [] when the key is absent
Conversation(s, key) ==
    IF key \in DOMAIN session_state[s] THEN session_state[s][key] ELSE <<>>

\* two appends: ('user', q) then ('bot', a)
AppendPair(conv, q, a) == Append(Append(conv, <<"user", q>>), <<"bot", a>>)

\* (variant: one store object shared by every run of the server process)
IndexKey_Shared(s) == 1

\* the run's name vector_store lives in the run's own script namespace
IndexKey(s) == s

\* an uncaught exception ends the script run
Abort(s, exc) ==
    /\ pc' = [pc EXCEPT ![s] = "aborted"]
    /\ raised' = [raised EXCEPT ![s] = exc]

\* A script run starts: module-level code up to line 57 rebinds
\* document_state = {"documents": []}; every local of the last run is gone.
StartRunUpTo(s, cap) ==
    /\ pc[s] \in {"ready", "done", "aborted"}
    /\ runs < cap
    /\ runs' = runs + 1
    /\ pc' = [pc EXCEPT ![s] = "general"]
    /\ document_state' = [document_state EXCEPT ![s] = <<>>]
    /\ pdf_file' = [pdf_file EXCEPT ![s] = None]
    /\ document_query' = [document_query EXCEPT ![s] = ""]
    /\ vector_store' = [vector_store EXCEPT ![IndexKey(s)] = NoIndex]
    /\ embedded' = [embedded EXCEPT ![s] = 0]
    /\ gen' = [gen EXCEPT ![s] = GenLocals]
    /\ calls' = [calls EXCEPT ![s] = NoCalls]
    /\ shown' = [shown EXCEPT ![s] = {}]
    /\ raised' = [raised EXCEPT ![s] = "none"]
    /\ pdf_out' = [pdf_out EXCEPT ![s] = FALSE]
    /\ general_query' = [general_query EXCEPT ![s] = ""]
    /\ UNCHANGED <<truncated, fs, session_state, stats>>

StartRun(s) == StartRunUpTo(s, MaxRuns)

\* ---- general chat tab (lines 209-244) ------------------------------------
\* empty text input: only the key is initialised
GeneralChatSkip(s) ==
    /\ pc[s] = "general"
    /\ session_state' = [session_state EXCEPT ![s] =
            ("general_conversation" :> Conversation(s, "general_conversation")) @@ @]
    /\ pc' = [pc EXCEPT ![s] = "upload"]
    /\ UNCHANGED <<general_query, truncated, fs, document_state, pdf_file, document_query, vector_store,
                   embedded, gen, calls, shown, raised, pdf_out, stats, runs>>

\* lines 217-219: a non-empty query, the chat completion call is issued
GeneralChatCall(s) ==
    /\ pc[s] = "general"
    /\ \E q \in GeneralQueries \ {""} :
        general_query' = [general_query EXCEPT ![s] = q]
    /\ session_state' = [session_state EXCEPT ![s] =
            ("general_conversation" :> Conversation(s, "general_conversation")) @@ @]
    /\ calls' = [calls EXCEPT ![s].chat = @ + 1]
    /\ pc' = [pc EXCEPT ![s] = "chat"]
    /\ UNCHANGED <<truncated, fs, document_state, pdf_file, document_query, vector_store,
                   embedded, gen, shown, raised, pdf_out, stats, runs>>

\* line 218: ChatOpenAI(...) raises (no API key configured), no call is issued
GeneralChatInitFail(s) ==
    /\ pc[s] = "general"
    /\ \E q \in GeneralQueries \ {""} :
        general_query' = [general_query EXCEPT ![s] = q]
    /\ session_state' = [session_state EXCEPT ![s] =
            ("general_conversation" :> Conversation(s, "general_conversation")) @@ @]
    /\ Abort(s, "chat_init")
    /\ UNCHANGED <<truncated, fs, document_state, pdf_file, document_query, vector_store,
                   embedded, gen, calls, shown, pdf_out, stats, runs>>

\* lines 221-222: the chat call returned, both entries are appended
GeneralChatOk(s) ==
    /\ pc[s] = "chat"
    /\ session_state' = [session_state EXCEPT ![s] =
            ("general_conversation" :>
                AppendPair(Conversation(s, "general_conversation"),
                           general_query[s], <<"reply", general_query[s]>>)) @@ @]
    /\ stats' = [stats EXCEPT ![s].general = @ + 1]
    /\ pc' = [pc EXCEPT ![s] = "upload"]
    /\ UNCHANGED <<general_query, truncated, fs, document_state, pdf_file, document_query,
                   vector_store, embedded, gen, calls, shown, raised, pdf_out, runs>>

\* (variant: the user entry is appended before the call is made)
GeneralChatFail_UserFirst(s) ==
    /\ pc[s] = "chat"
    /\ session_state' = [session_state EXCEPT ![s] =
            ("general_conversation" :>
                Append(Conversation(s, "general_conversation"),
                       <<"user", general_query[s]>>)) @@ @]
    /\ Abort(s, "chat")
    /\ UNCHANGED <<general_query, truncated, fs, document_state, pdf_file, document_query,
                   vector_store, embedded, gen, calls, shown, pdf_out, stats, runs>>

\* the chat call raises at line 219: nothing is appended
GeneralChatFail(s) ==
    /\ pc[s] = "chat"
    /\ Abort(s, "chat")
    /\ UNCHANGED <<general_query, truncated, fs, session_state, document_state, pdf_file,
                   document_query, vector_store, embedded, gen, calls, shown, pdf_out,
                   stats, runs>>

\* ---- document analysis tab (lines 247-295) -------------------------------
\* PyPDFLoader(path).load() raises: unparsable file, a directory, or a file
\* another run has opened for writing and not written yet (0 bytes)
Unloadable(d) == Corrupt(d) \/ ~IsFile(d) \/ d \in truncated

\* handle_document_upload returns: the upload's pages, or, when that list is
\* empty (no upload, or an upload with no page), the pages of every PDF of
\* the directory in listing order.
HandleUploadOk(s) ==
    /\ pc[s] = "upload"
    /\ \E f \in Uploads \cup {None} :
        /\ f = None \/ ~Corrupt(f)
        /\ pdf_file' = [pdf_file EXCEPT ![s] = f]
        /\ LET uploaded == IF f = None THEN <<>> ELSE Pages(f)
           IN IF uploaded # <<>>
              THEN document_state' = [document_state EXCEPT ![s] = uploaded]
              ELSE /\ \A d \in AnalysisListed(fs) : ~Unloadable(d)
                   /\ \E order \in Orderings(AnalysisListed(fs)) :
                        document_state' = [document_state EXCEPT ![s] = LoadAll(order)]
    /\ pc' = [pc EXCEPT ![s] = "analysis"]
    /\ UNCHANGED <<general_query, truncated, fs, session_state, document_query,
                   vector_store, embedded, gen, calls, shown, raised, pdf_out, stats, runs>>

\* loader.load() raises on the upload (line 67: nothing is assigned) or on a
\* directory file (line 75: the pages of the files listed before it stay)
HandleUploadFail(s) ==
    /\ pc[s] = "upload"
    /\ \E f \in Uploads \cup {None} :
        /\ pdf_file' = [pdf_file EXCEPT ![s] = f]
        /\ \/ /\ f # None /\ Corrupt(f)
              /\ document_state' = document_state
           \/ /\ f = None \/ (~Corrupt(f) /\ Pages(f) = <<>>)
              /\ \E order \in Orderings(AnalysisListed(fs)) :
                   \E i \in DOMAIN order :
                      /\ Unloadable(order[i])
                      /\ \A j \in 1..(i - 1) : ~Unloadable(order[j])
                      /\ document_state' = [document_state EXCEPT ![s] =
                                                LoadAll(SubSeq(order, 1, i - 1))]
    /\ Abort(s, "load")
    /\ UNCHANGED <<general_query, truncated, fs, session_state, document_query,
                   vector_store, embedded, gen, calls, shown, pdf_out, stats, runs>>

\* (variant: the guard of line 252 is missing, an empty list is indexed)
NoDocuments_Unguarded(s) ==
    /\ pc[s] = "analysis"
    /\ document_state[s] = <<>>
    /\ calls' = [calls EXCEPT ![s].embed = @ + 1]
    /\ vector_store' = [vector_store EXCEPT ![IndexKey(s)] =
            [segs |-> <<>>, phase |-> "building", owner |-> s]]
    /\ pc' = [pc EXCEPT ![s] = "embedding"]
    /\ UNCHANGED <<general_query, truncated, fs, session_state, document_state, pdf_file, document_query,
                   embedded, gen, shown, raised, pdf_out, stats, runs>>

\* line 295: no document, the fixed message is written
NoDocuments(s) ==
    /\ pc[s] = "analysis"
    /\ document_state[s] = <<>>
    /\ shown' = [shown EXCEPT ![s] = @ \cup {MsgNoDocument}]
    /\ pc' = [pc EXCEPT ![s] = "gen"]
    /\ UNCHANGED <<general_query, truncated, fs, session_state, document_state, pdf_file, document_query,
                   vector_store, embedded, gen, calls, raised, pdf_out, stats, runs>>

\* line 253: OpenAIEmbeddings(...) raises, no embedding call is issued
BuildInitFail(s) ==
    /\ pc[s] = "analysis"
    /\ document_state[s] # <<>>
    /\ Abort(s, "embedding_init")
    /\ UNCHANGED <<general_query, truncated, fs, session_state, document_state, pdf_file,
                   document_query, vector_store, embedded, gen, calls, shown, pdf_out,
                   stats, runs>>

\* line 254: from_documents creates an empty store and starts embedding
BuildStart(s) ==
    /\ pc[s] = "analysis"
    /\ document_state[s] # <<>>
    /\ calls' = [calls EXCEPT ![s].embed = @ + 1]
    /\ vector_store' = [vector_store EXCEPT ![IndexKey(s)] =
            [segs |-> <<>>, phase |-> "building", owner |-> s]]
    /\ embedded' = [embedded EXCEPT ![s] = 0]
    /\ pc' = [pc EXCEPT ![s] = "embedding"]
    /\ UNCHANGED <<general_query, truncated, fs, session_state, document_state, pdf_file, document_query,
                   gen, shown, raised, pdf_out, stats, runs>>

\* one more segment's vector comes back from the embedding API
EmbedSegment(s) ==
    /\ pc[s] = "embedding"
    /\ embedded[s] < Len(document_state[s])
    /\ embedded' = [embedded EXCEPT ![s] = @ + 1]
    /\ UNCHANGED <<general_query, truncated, fs, session_state, pc, document_state, pdf_file, document_query,
                   vector_store, gen, calls, shown, raised, pdf_out, stats, runs>>

\* (variant: the exception is swallowed and the vectors obtained so far are indexed)
EmbedFail_KeepPartial(s) ==
    /\ pc[s] = "embedding"
    /\ embedded[s] < Len(document_state[s])
    /\ vector_store' = [vector_store EXCEPT ![IndexKey(s)] =
            [segs |-> SubSeq(document_state[s], 1, embedded[s]),
             phase |-> "built", owner |-> s]]
    /\ pc' = [pc EXCEPT ![s] = "query"]
    /\ UNCHANGED <<general_query, truncated, fs, session_state, document_state, pdf_file, document_query,
                   embedded, gen, calls, shown, raised, pdf_out, stats, runs>>

\* the embedding call raises: from_documents returns no store, the run ends
EmbedFail(s) ==
    /\ pc[s] = "embedding"
    /\ embedded[s] < Len(document_state[s])
    /\ vector_store' = [vector_store EXCEPT ![IndexKey(s)] = NoIndex]
    /\ Abort(s, "embedding")
    /\ UNCHANGED <<general_query, truncated, fs, session_state, document_state, pdf_file, document_query,
                   embedded, gen, calls, shown, pdf_out, stats, runs>>

\* every segment is embedded: all are inserted, vector_store and qa_chain are bound
BuildFinish(s) ==
    /\ pc[s] = "embedding"
    /\ embedded[s] = Len(document_state[s])
    /\ vector_store' = [vector_store EXCEPT ![IndexKey(s)] =
            [segs |-> document_state[s], phase |-> "built", owner |-> s]]
    /\ pc' = [pc EXCEPT ![s] = "query"]
    /\ UNCHANGED <<general_query, truncated, fs, session_state, document_state, pdf_file, document_query,
                   embedded, gen, calls, shown, raised, pdf_out, stats, runs>>

\* every segment is embedded and vector_store is bound, then ChatOpenAI(...)
\* or RetrievalQA.from_chain_type raises (lines 255-259): no query is read
ChainInitFail(s) ==
    /\ pc[s] = "embedding"
    /\ embedded[s] = Len(document_state[s])
    /\ vector_store' = [vector_store EXCEPT ![IndexKey(s)] =
            [segs |-> document_state[s], phase |-> "built", owner |-> s]]
    /\ Abort(s, "chain_init")
    /\ UNCHANGED <<general_query, truncated, fs, session_state, document_state, pdf_file,
                   document_query, embedded, gen, calls, shown, pdf_out, stats, runs>>

\* line 263: empty query text, nothing is asked and nothing is displayed
QuerySkip(s) ==
    /\ pc[s] = "query"
    /\ pc' = [pc EXCEPT ![s] = "gen"]
    /\ UNCHANGED <<general_query, truncated, fs, session_state, document_state, pdf_file, document_query,
                   vector_store, embedded, gen, calls, shown, raised, pdf_out, stats, runs>>

\* the query of the last recorded pair, "" when there is none
LastAsked(s) ==
    LET conv == Conversation(s, "document_conversation")
    IN IF conv = <<>> THEN "" ELSE conv[Len(conv) - 1][2]

\* (variant: a query equal to the last answered one is served from the history)
SynthCall_Cached(s) ==
    /\ pc[s] = "query"
    /\ \E q \in DocQueries \ {""} :
        /\ document_query' = [document_query EXCEPT ![s] = q]
        /\ IF q = LastAsked(s)
           THEN /\ calls' = calls
                /\ pc' = [pc EXCEPT ![s] = "gen"]
           ELSE /\ calls' = [calls EXCEPT ![s].synth = @ + 1]
                /\ pc' = [pc EXCEPT ![s] = "synth"]
    /\ UNCHANGED <<general_query, truncated, fs, session_state, document_state, pdf_file, vector_store,
                   embedded, gen, shown, raised, pdf_out, stats, runs>>

\* line 264: qa_chain.run(document_query) is issued (retrieval and synthesis)
SynthCall(s) ==
    /\ pc[s] = "query"
    /\ \E q \in DocQueries \ {""} :
        document_query' = [document_query EXCEPT ![s] = q]
    /\ calls' = [calls EXCEPT ![s].synth = @ + 1]
    /\ pc' = [pc EXCEPT ![s] = "synth"]
    /\ UNCHANGED <<general_query, truncated, fs, session_state, document_state, pdf_file, vector_store,
                   embedded, gen, shown, raised, pdf_out, stats, runs>>

\* the answer the chain produces from the index it reads
Answer(s) == <<document_query[s], vector_store[IndexKey(s)].segs>>

\* lines 266-292: the call returned, the pair is recorded and displayed
SynthOk(s) ==
    /\ pc[s] = "synth"
    /\ session_state' = [session_state EXCEPT ![s] =
            ("document_conversation" :>
                AppendPair(Conversation(s, "document_conversation"),
                           document_query[s], Answer(s))) @@ @]
    /\ shown' = [shown EXCEPT ![s] = @ \cup {MsgConversation}]
    /\ stats' = [stats EXCEPT ![s].document = @ + 1]
    /\ pc' = [pc EXCEPT ![s] = "gen"]
    /\ UNCHANGED <<general_query, truncated, fs, document_state, pdf_file, document_query, vector_store,
                   embedded, gen, calls, raised, pdf_out, runs>>

\* (variant: the user entry is appended before qa_chain.run is called)
SynthFail_UserFirst(s) ==
    /\ pc[s] = "synth"
    /\ session_state' = [session_state EXCEPT ![s] =
            ("document_conversation" :>
                Append(Conversation(s, "document_conversation"),
                       <<"user", document_query[s]>>)) @@ @]
    /\ stats' = [stats EXCEPT ![s].failed = @ + 1]
    /\ Abort(s, "synthesis")
    /\ UNCHANGED <<general_query, truncated, fs, document_state, pdf_file, document_query,
                   vector_store, embedded, gen, calls, shown, pdf_out, runs>>

\* qa_chain.run raises: lines 266-270 are never reached
SynthFail(s) ==
    /\ pc[s] = "synth"
    /\ stats' = [stats EXCEPT ![s].failed = @ + 1]
    /\ Abort(s, "synthesis")
    /\ UNCHANGED <<general_query, truncated, fs, session_state, document_state, pdf_file, document_query,
                   vector_store, embedded, gen, calls, shown, pdf_out, runs>>

\* ---- document generation tab (lines 298-386) -----------------------------
\* line 305: list the directory
GenList(s) ==
    /\ pc[s] = "gen"
    /\ gen' = [gen EXCEPT ![s].pdf_files = GenListed(fs)]
    /\ pc' = [pc EXCEPT ![s] = "uploader"]
    /\ UNCHANGED <<general_query, truncated, fs, session_state, document_state, pdf_file,
                   document_query, vector_store, embedded, calls, shown, raised, pdf_out,
                   stats, runs>>

\* lines 308-313: read the uploader; an uploaded file is opened 'wb' under
\* its own name, which creates it or truncates it
GenUploadWith(s, ups) ==
    /\ pc[s] = "uploader"
    /\ \E up \in ups \cup {None} :
        /\ gen' = [gen EXCEPT ![s].uploaded_file = up]
        /\ IF up = None
           THEN /\ UNCHANGED <<fs, truncated>>
                /\ pc' = [pc EXCEPT ![s] = "source"]
           ELSE /\ fs' = fs \cup {up}
                /\ truncated' = truncated \cup {up}
                /\ pc' = [pc EXCEPT ![s] = "store"]
    /\ UNCHANGED <<general_query, session_state, document_state, pdf_file, document_query,
                   vector_store, embedded, calls, shown, raised, pdf_out, stats, runs>>

GenUpload(s) == GenUploadWith(s, GenUploads)

\* lines 314-319: the bytes are written, success is shown, the name is appended
GenStoreWrite(s) ==
    /\ pc[s] = "store"
    /\ truncated' = truncated \ {gen[s].uploaded_file}
    /\ shown' = [shown EXCEPT ![s] = @ \cup {MsgUploaded}]
    /\ gen' = [gen EXCEPT ![s].pdf_files = @ \cup {gen[s].uploaded_file}]
    /\ pc' = [pc EXCEPT ![s] = "source"]
    /\ UNCHANGED <<general_query, fs, session_state, document_state, pdf_file,
                   document_query, vector_store, embedded, calls, raised, pdf_out,
                   stats, runs>>

\* lines 322-335 up to the URL fetch: read the URL and choose the source in
\* the select boxes
GenSourceWith(s, urls) ==
    /\ pc[s] = "source"
    /\ \E url \in urls, src \in {"PDF", "URL"} :
        LET pdf_files == gen[s].pdf_files
        IN IF pdf_files = {} /\ url = ""
           THEN /\ shown' = [shown EXCEPT ![s] = @ \cup {MsgNoPdf}]
                /\ pc' = [pc EXCEPT ![s] = "done"]
                /\ gen' = gen
           ELSE /\ shown' = shown
                /\ \E sel \in IF src = "PDF" /\ pdf_files # {} THEN pdf_files ELSE {None} :
                     gen' = [gen EXCEPT ![s].content_source = src,
                                        ![s].selected_pdf = sel,
                                        ![s].url_input = url]
                /\ pc' = [pc EXCEPT ![s] =
                             IF src = "URL" /\ url # "" THEN "fetch" ELSE "button"]
    /\ UNCHANGED <<general_query, truncated, fs, session_state, document_state, pdf_file,
                   document_query, vector_store, embedded, calls, raised, pdf_out,
                   stats, runs>>

GenSource(s) == GenSourceWith(s, UrlInputs)

\* extract_text_from_url returns the page's text, possibly empty
FetchOk(s) ==
    /\ pc[s] = "fetch"
    /\ \E text \in UrlTexts : gen' = [gen EXCEPT ![s].url_content = text]
    /\ pc' = [pc EXCEPT ![s] = "button"]
    /\ UNCHANGED <<general_query, truncated, fs, session_state, document_state, pdf_file, document_query,
                   vector_store, embedded, calls, shown, raised, pdf_out, stats, runs>>

\* extract_text_from_url catches the exception, shows it and returns None
FetchFail(s) ==
    /\ pc[s] = "fetch"
    /\ shown' = [shown EXCEPT ![s] = @ \cup {MsgUrlError}]
    /\ gen' = [gen EXCEPT ![s].url_content = None]
    /\ pc' = [pc EXCEPT ![s] = "button"]
    /\ UNCHANGED <<general_query, truncated, fs, session_state, document_state, pdf_file, document_query,
                   vector_store, embedded, calls, raised, pdf_out, stats, runs>>

\* the button was not clicked in this run
ButtonIdle(s) ==
    /\ pc[s] = "button"
    /\ pc' = [pc EXCEPT ![s] = "done"]
    /\ UNCHANGED <<general_query, truncated, fs, session_state, document_state, pdf_file, document_query,
                   vector_store, embedded, gen, calls, shown, raised, pdf_out, stats, runs>>

\* the truth value Python gives url_content and selected_pdf
Truthy(v) == v # None /\ v # ""

\* lines 338-365: the prompt the two branches bind, if either is taken
UserPrompt(g) ==
    IF g.content_source = "PDF" /\ Truthy(g.selected_pdf) THEN "prompt_pdf"
    ELSE IF g.content_source = "URL" /\ Truthy(g.url_content) THEN "prompt_url"
    ELSE Unbound

\* clicked, a branch bound user_prompt: generate_content is called (line 369)
GenClick(s) ==
    /\ pc[s] = "button"
    /\ UserPrompt(gen[s]) # Unbound
    /\ gen[s].content_source = "PDF" => ~Unloadable(gen[s].selected_pdf)
    /\ gen' = [gen EXCEPT ![s].clicked = TRUE, ![s].user_prompt = UserPrompt(gen[s])]
    /\ calls' = [calls EXCEPT ![s].generate = @ + 1]
    /\ pc' = [pc EXCEPT ![s] = "generate"]
    /\ UNCHANGED <<general_query, truncated, fs, session_state, document_state, pdf_file, document_query,
                   vector_store, embedded, shown, raised, pdf_out, stats, runs>>

\* clicked, loader.load() of the selected PDF raises (line 342)
GenClickLoadFail(s) ==
    /\ pc[s] = "button"
    /\ gen[s].content_source = "PDF"
    /\ Truthy(gen[s].selected_pdf)
    /\ Unloadable(gen[s].selected_pdf)
    /\ gen' = [gen EXCEPT ![s].clicked = TRUE]
    /\ Abort(s, "load_selected")
    /\ UNCHANGED <<general_query, truncated, fs, session_state, document_state, pdf_file, document_query,
                   vector_store, embedded, calls, shown, pdf_out, stats, runs>>

\* clicked, neither branch bound user_prompt: line 367 reads an unbound name
GenClickNoSource(s) ==
    /\ pc[s] = "button"
    /\ UserPrompt(gen[s]) = Unbound
    /\ gen' = [gen EXCEPT ![s].clicked = TRUE]
    /\ Abort(s, "NameError")
    /\ UNCHANGED <<general_query, truncated, fs, session_state, document_state, pdf_file, document_query,
                   vector_store, embedded, calls, shown, pdf_out, stats, runs>>

\* generate_content returns the generated text
GenerateOk(s) ==
    /\ pc[s] = "generate"
    /\ pc' = [pc EXCEPT ![s] = "render"]
    /\ UNCHANGED <<general_query, truncated, fs, session_state, document_state, pdf_file, document_query,
                   vector_store, embedded, gen, calls, shown, raised, pdf_out, stats, runs>>

\* the chat call of generate_content raises
GenerateFail(s) ==
    /\ pc[s] = "generate"
    /\ Abort(s, "generate")
    /\ UNCHANGED <<general_query, truncated, fs, session_state, document_state, pdf_file, document_query,
                   vector_store, embedded, gen, calls, shown, pdf_out, stats, runs>>

\* lines 372-382: create_pdf writes the file, success and download button shown
RenderOk(s) ==
    /\ pc[s] = "render"
    /\ pdf_out' = [pdf_out EXCEPT ![s] = TRUE]
    /\ shown' = [shown EXCEPT ![s] = @ \cup {MsgGenerated}]
    /\ pc' = [pc EXCEPT ![s] = "done"]
    /\ UNCHANGED <<general_query, truncated, fs, session_state, document_state, pdf_file, document_query,
                   vector_store, embedded, gen, calls, raised, stats, runs>>

\* create_pdf raises (font file missing, unwritable path)
RenderFail(s) ==
    /\ pc[s] = "render"
    /\ Abort(s, "render")
    /\ UNCHANGED <<general_query, truncated, fs, session_state, document_state, pdf_file, document_query,
                   vector_store, embedded, gen, calls, shown, pdf_out, stats, runs>>

\* ---- specification -------------------------------------------------------
Solo == {1}

Next ==
    \E s \in Solo :
        \/ StartRun(s)
        \/ GeneralChatSkip(s)
        \/ GeneralChatCall(s)
        \/ GeneralChatInitFail(s)
        \/ GeneralChatOk(s)
        \/ GeneralChatFail(s)
        \/ HandleUploadOk(s)
        \/ HandleUploadFail(s)
        \/ NoDocuments(s)
        \/ BuildInitFail(s)
        \/ BuildStart(s)
        \/ EmbedSegment(s)
        \/ EmbedFail(s)
        \/ BuildFinish(s)
        \/ ChainInitFail(s)
        \/ QuerySkip(s)
        \/ SynthCall(s)
        \/ SynthOk(s)
        \/ SynthFail(s)
        \/ GenList(s)
        \/ GenUpload(s)
        \/ GenStoreWrite(s)
        \/ GenSource(s)
        \/ FetchOk(s)
        \/ FetchFail(s)
        \/ ButtonIdle(s)
        \/ GenClick(s)
        \/ GenClickLoadFail(s)
        \/ GenClickNoSource(s)
        \/ GenerateOk(s)
        \/ GenerateFail(s)
        \/ RenderOk(s)
        \/ RenderFail(s)

Spec == Init /\ [][Next]_vars

\* Several sessions at once, their users working in the analysis tab: the
\* general chat input and the URL input stay empty and the button is not
\* clicked, so those tabs run through without a remote call; a file stored
\* in the generation tab is A.pdf.
StartRunConc(s) == StartRunUpTo(s, MaxConcRuns)
GenUploadConc(s) == GenUploadWith(s, {"A"})
GenSourceConc(s) == GenSourceWith(s, {""})

NextConc ==
    \E s \in Sessions :
        \/ StartRunConc(s)
        \/ GeneralChatSkip(s)
        \/ HandleUploadOk(s)
        \/ HandleUploadFail(s)
        \/ NoDocuments(s)
        \/ BuildInitFail(s)
        \/ BuildStart(s)
        \/ EmbedSegment(s)
        \/ EmbedFail(s)
        \/ BuildFinish(s)
        \/ ChainInitFail(s)
        \/ QuerySkip(s)
        \/ SynthCall(s)
        \/ SynthOk(s)
        \/ SynthFail(s)
        \/ GenList(s)
        \/ GenUploadConc(s)
        \/ GenStoreWrite(s)
        \/ GenSourceConc(s)
        \/ ButtonIdle(s)

SpecConc == Init /\ [][NextConc]_vars

\* ---- properties ----------------------------------------------------------
ZeroPageUpload(s) ==
    pdf_file[s] # None /\ ~Corrupt(pdf_file[s]) /\ NPages(pdf_file[s]) = 0

\* handle_document_upload has returned in the current run of s
Loaded(s) ==
    /\ pc[s] \notin {"ready", "general", "chat", "upload"}
    /\ ~(pc[s] = "aborted" /\ raised[s] \in {"chat_init", "chat", "load"})

\* the analysis tab's if/else (lines 252-295) has been left by the run of s
AnalysisLeft(s) ==
    pc[s] \in {"gen", "uploader", "store", "source", "fetch", "button", "generate", "render", "done"}
    \/ (pc[s] = "aborted" /\ raised[s] \in {"load_selected", "NameError", "generate", "render"})

IsPrefix(a, b) == Len(a) <= Len(b) /\ SubSeq(b, 1, Len(a)) = a

\* C1: when the analysis tab's upload has zero extractable pages, the load
\* fails with a load error and the run aborts before any embedding call: no
\* index is built and no query is answered in that run.
C1_EmptyUploadAborts ==
    \A s \in Sessions :
        ZeroPageUpload(s) =>
            /\ pc[s] = "aborted" /\ raised[s] = "load"
            /\ calls[s].embed = 0 /\ calls[s].synth = 0
            /\ vector_store[IndexKey(s)].phase = "none"

\* C2: in every run whose loaded document list is empty, no embedding call and
\* no synthesis call is issued, and once the analysis tab is through the user
\* has been shown the fixed no-document message and no generated answer.
C2_NoDocumentsNoRemoteCall ==
    \A s \in Sessions :
        (Loaded(s) /\ document_state[s] = <<>>) =>
            /\ calls[s].embed = 0 /\ calls[s].synth = 0
            /\ vector_store[IndexKey(s)].phase = "none"
            /\ AnalysisLeft(s) => (MsgNoDocument \in shown[s] /\ MsgConversation \notin shown[s])

C2_Witness ==
    \E s \in Sessions :
        /\ pc[s] = "done" /\ pdf_file[s] = None /\ document_state[s] = <<>>
        /\ MsgNoDocument \in shown[s]

\* C3: the index is never partially built: whenever a run is at or past the
\* query step, its index holds every loaded segment; a run whose embedding
\* step failed has no index and issues no synthesis call.
C3_IndexNeverPartial ==
    \A s \in Sessions :
        /\ (pc[s] \in {"query", "synth"} \/ calls[s].synth > 0) =>
                /\ vector_store[IndexKey(s)].phase = "built"
                /\ vector_store[IndexKey(s)].segs = document_state[s]
                /\ document_state[s] # <<>>
        /\ raised[s] \in {"embedding_init", "embedding"} =>
                /\ pc[s] = "aborted" /\ calls[s].synth = 0
                /\ vector_store[IndexKey(s)].phase = "none"
                /\ MsgConversation \notin shown[s]

C3_Witness ==
    \E s \in Sessions :
        /\ pc[s] = "aborted" /\ raised[s] = "embedding"
        /\ 0 < embedded[s] /\ embedded[s] < Len(document_state[s])

\* C4: the index that answers a document query holds exactly the pages of the
\* currently uploaded document, in page order, and nothing else.
C4_IndexIsCurrentUpload ==
    \A s \in Sessions :
        (pc[s] = "synth" /\ pdf_file[s] # None) =>
            vector_store[IndexKey(s)].segs = Pages(pdf_file[s])

\* C5: a failing synthesis call leaves the session's conversations as they
\* were (no user entry, no bot entry), and no step ever removes or rewrites a
\* recorded entry.
C5_SynthFailureLeavesHistory ==
    [][\A s \in Sessions :
        /\ (pc[s] = "synth" /\ pc'[s] = "aborted") => session_state'[s] = session_state[s]
        /\ \A k \in DOMAIN session_state[s] :
              /\ k \in DOMAIN session_state'[s]
              /\ IsPrefix(session_state[s][k], session_state'[s][k])]_vars

\* a later query of the session is answered after a failed one
C5_Witness ==
    \E s \in Sessions :
        /\ stats[s].failed > 0 /\ pc[s] = "gen" /\ MsgConversation \in shown[s]
        /\ Len(Conversation(s, "document_conversation")) = 2

StageMessage(exc) == <<"stage failed", exc>>

\* C6: every stage failure ends with a message naming the failed stage shown.
C6_EveryFailureShowsStage ==
    \A s \in Sessions :
        pc[s] = "aborted" => StageMessage(raised[s]) \in shown[s]

\* C7: no answer is cached or reused: a run that reads a non-empty query has
\* issued exactly one synthesis call of its own, and once that call has
\* returned its result is the last pair of the history, whatever was asked
\* before.
C7_FreshAnswerPerQuery ==
    \A s \in Sessions :
        document_query[s] # "" =>
            /\ calls[s].synth = 1
            /\ document_state[s] # <<>>
            /\ (pc[s] # "synth" /\ raised[s] # "synthesis") =>
                 LET conv == Conversation(s, "document_conversation")
                 IN /\ MsgConversation \in shown[s]
                    /\ Len(conv) = 2 * stats[s].document
                    /\ Len(conv) >= 2
                    /\ conv[Len(conv) - 1] = <<"user", document_query[s]>>
                    /\ conv[Len(conv)] = <<"bot", Answer(s)>>

\* the query answered in the previous run is asked and answered again
C7_Witness ==
    \E s \in Sessions :
        LET conv == Conversation(s, "document_conversation")
        IN /\ pc[s] = "gen" /\ calls[s].synth = 1 /\ Len(conv) = 4
           /\ conv[1] = conv[3] /\ conv[3] = <<"user", document_query[s]>>

\* C8: a query never runs against an index that is being rebuilt: the index a
\* synthesis call reads was built completely, earlier in the same run, from
\* that run's documents, and no other run builds into it.
C8_QueryNeverDuringRebuild ==
    \A s \in Sessions :
        /\ pc[s] = "synth" =>
            /\ vector_store[IndexKey(s)].phase = "built"
            /\ vector_store[IndexKey(s)].owner = s
            /\ vector_store[IndexKey(s)].segs = document_state[s]
            /\ \A t \in Sessions \ {s} :
                  pc[t] = "embedding" => IndexKey(t) # IndexKey(s)
        /\ pc[s] = "embedding" =>
            /\ vector_store[IndexKey(s)].phase = "building"
            /\ vector_store[IndexKey(s)].owner = s

\* one session's query is in flight while another session's build is under way
C8_Witness ==
    \E s, t \in Sessions :
        /\ s # t /\ pc[s] = "synth"
        /\ pc[t] = "embedding" /\ embedded[t] > 0

\* C9: 'Generer' clicked without usable source content: the error message is
\* shown, no chat call is made, no PDF is created, no exception is raised.
C9_NoSourceShowsError ==
    \A s \in Sessions :
        (gen[s].clicked /\ UserPrompt(gen[s]) = Unbound) =>
            /\ MsgSelectSource \in shown[s]
            /\ calls[s].generate = 0 /\ ~pdf_out[s]
            /\ raised[s] = "none"

Alternates(conv) ==
    /\ Len(conv) % 2 = 0
    /\ \A i \in 1..Len(conv) : conv[i][1] = (IF i % 2 = 1 THEN "user" ELSE "bot")

\* C10: each conversation has even length and alternates user/bot, every bot
\* entry follows the user entry of its own query, and the number of pairs is
\* the number of calls that returned.
C10_HistoriesAlternate ==
    \A s \in Sessions :
        LET g == Conversation(s, "general_conversation")
            d == Conversation(s, "document_conversation")
        IN /\ Alternates(g) /\ Alternates(d)
           /\ Len(g) = 2 * stats[s].general
           /\ Len(d) = 2 * stats[s].document
           /\ \A i \in 1..Len(g) : i % 2 = 0 => g[i][2] = <<"reply", g[i - 1][2]>>
           /\ \A i \in 1..Len(d) : i % 2 = 0 => d[i][2][1] = d[i - 1][2]

\* both conversations hold a pair and a chat call has failed in this run
C10_Witness ==
    \E s \in Sessions :
        /\ Len(Conversation(s, "general_conversation")) = 2
        /\ Len(Conversation(s, "document_conversation")) = 2
        /\ pc[s] = "aborted" /\ raised[s] = "chat"

====
